---- MODULE Spec2Model ----
(***************************************************************************)
(* A model of netgear_cm_exporter: the Prometheus collector that scrapes   *)
(* the DocsisStatus.asp page of a Netgear cable modem (main.go), and the   *)
(* YAML configuration loader (config.go).                                  *)
(*                                                                         *)
(* Texts are sequences of one-character strings, so that trimming,         *)
(* scanning and formatting are computed character by character.  A number  *)
(* is a record [m, e] standing for m * 10^(-e), kept normalised (m has no  *)
(* trailing decimal zero unless e = 0), so that equal values are equal     *)
(* records.                                                                *)
(***************************************************************************)
EXTENDS Integers, Sequences, FiniteSets, TLC

VARIABLES
    mainPc,        \* main(): "start", "parsed", "registered", "serving", "fatal", "exit"
    osArgs,        \* the configuration sources main() reads (flags, environment, file)
    flags,         \* the flag values after ff.Parse
    exporter,      \* the registered Exporter (url, authHeaderValue) or NoExporter
    pending,       \* scrape requests the monitoring system has still to send
    pc,            \* position of each handler goroutine inside Exporter.Collect
    mu,            \* Exporter.mu: 0 when free, else the goroutine holding it
    totalScrapes,  \* Exporter.totalScrapes
    scrapeErrors,  \* Exporter.scrapeErrors
    resp,          \* per goroutine: what c.Visit fetched (NoResp before the fetch)
    ch,            \* per goroutine: the samples sent on ch by the current invocation
    returned,      \* number of invocations of Collect that have returned
    failedFetches, \* number of fetches that ended with an error
    fn,            \* pure-function harness: the function under evaluation
    arg,           \* pure-function harness: its input
    res            \* pure-function harness: its result (NoRes before it is applied)

vars == <<mainPc, osArgs, flags, exporter, pending, pc, mu, totalScrapes,
          scrapeErrors, resp, ch, returned, failedFetches, fn, arg, res>>

mainVars == <<mainPc, osArgs, flags, exporter>>
scrapeVars ==
    <<pending, pc, mu, totalScrapes, scrapeErrors, resp, ch, returned, failedFetches>>
fnVars == <<fn, arg, res>>

-----------------------------------------------------------------------------
(* Characters and numbers *)

DigitChars == <<"0", "1", "2", "3", "4", "5", "6", "7", "8", "9">>
Digits == {DigitChars[i] : i \in 1..10}
DigitVal(c) == (CHOOSE i \in 1..10 : DigitChars[i] = c) - 1
Signs == {"+", "-"}
Exponents == {"e", "E"}

RECURSIVE Pow10(_)
Pow10(n) == IF n = 0 THEN 1 ELSE 10 * Pow10(n - 1)

\* The value m * 10^(-e) with the trailing decimal zeros of m dropped.
RECURSIVE Norm(_, _)
Norm(m, e) ==
    IF e > 0 /\ m % 10 = 0 THEN Norm(m \div 10, e - 1) ELSE [m |-> m, e |-> e]

Zero == [m |-> 0, e |-> 0]
Int2Num(n) == [m |-> n, e |-> 0]

\* The decimal digits of a natural number, most significant first.
RECURSIVE NatText(_)
NatText(n) ==
    IF n < 10 THEN <<DigitChars[n + 1]>>
    ELSE NatText(n \div 10) \o <<DigitChars[(n % 10) + 1]>>

-----------------------------------------------------------------------------
(* strings.TrimSpace *)

IsSpace(c) == c = " "

RECURSIVE TrimLeft(_)
TrimLeft(s) ==
    IF s # <<>> /\ IsSpace(Head(s)) THEN TrimLeft(Tail(s)) ELSE s

RECURSIVE TrimRight(_)
TrimRight(s) ==
    IF s # <<>> /\ IsSpace(s[Len(s)]) THEN TrimRight(SubSeq(s, 1, Len(s) - 1)) ELSE s

\* A cell text taken as it is.
NoTrimSpace(s) == s

TrimSpace(s) == TrimRight(TrimLeft(s))

-----------------------------------------------------------------------------
(* fmt.Sscanf(text, "%f<suffix>", &v), as the scrape uses it: the error it   *)
(* returns is dropped by every caller, and v keeps whatever was stored.      *)

\* The number of leading characters of s that belong to set.
RECURSIVE RunLen(_, _)
RunLen(s, set) ==
    IF s # <<>> /\ Head(s) \in set THEN 1 + RunLen(Tail(s), set) ELSE 0

Drop(s, n) == SubSeq(s, n + 1, Len(s))
Take(s, n) == SubSeq(s, 1, n)
Accept1(s, set) == IF s # <<>> /\ Head(s) \in set THEN 1 ELSE 0

\* fmt's floatToken: an optional sign, digits, an optional period and digits,
\* an optional exponent (marker, optional sign, digits).  The pieces of the
\* token are returned with the input left after it.
TokenExponent(neg, int, frac, s) ==
    LET ex == Accept1(s, Exponents)
        esg == IF ex = 1 THEN Accept1(Drop(s, 1), Signs) ELSE 0
        nExp == IF ex = 1 THEN RunLen(Drop(s, 1 + esg), Digits) ELSE 0
    IN  [neg |-> neg, int |-> int, frac |-> frac,
         hasExp |-> ex = 1,
         expNeg |-> esg = 1 /\ s[2] = "-",
         exp |-> SubSeq(s, ex + esg + 1, ex + esg + nExp),
         rest |-> Drop(s, ex + esg + nExp)]

TokenFraction(neg, int, s) ==
    LET dot == Accept1(s, {"."})
        nFrac == IF dot = 1 THEN RunLen(Tail(s), Digits) ELSE 0
    IN  TokenExponent(neg, int, SubSeq(s, dot + 1, dot + nFrac), Drop(s, dot + nFrac))

TokenDigits(neg, s) ==
    TokenFraction(neg, Take(s, RunLen(s, Digits)), Drop(s, RunLen(s, Digits)))

FloatToken(s) ==
    IF Accept1(s, Signs) = 1 THEN TokenDigits(Head(s) = "-", Tail(s))
    ELSE TokenDigits(FALSE, s)

RECURSIVE DigitsVal(_)
DigitsVal(ds) ==
    IF ds = <<>> THEN 0
    ELSE 10 * DigitsVal(SubSeq(ds, 1, Len(ds) - 1)) + DigitVal(ds[Len(ds)])

\* strconv.ParseFloat accepts the token when the mantissa has a digit and an
\* exponent marker is followed by a digit.
ParseFloatOk(t) ==
    /\ Len(t.int) + Len(t.frac) >= 1
    /\ t.hasExp => t.exp # <<>>

ParseFloat(t) ==
    LET mant == DigitsVal(t.int \o t.frac)
        m == IF t.neg THEN 0 - mant ELSE mant
        x == IF t.expNeg THEN 0 - DigitsVal(t.exp) ELSE DigitsVal(t.exp)
        e == Len(t.frac) - x
    IN  IF e >= 0 THEN Norm(m, e) ELSE Norm(m * Pow10(0 - e), 0)

\* fmt's advance over the rest of the format after the verb: a space of the
\* format matches one or more spaces of the input or its end; any other
\* character must be the next character of the input.  TRUE when the whole
\* suffix matched.
RECURSIVE Advance(_, _)
Advance(suffix, input) ==
    IF suffix = <<>> THEN [ok |-> TRUE, rest |-> input]
    ELSE IF IsSpace(Head(suffix))
         THEN IF input # <<>> /\ ~IsSpace(Head(input))
              THEN [ok |-> FALSE, rest |-> input]
              ELSE Advance(TrimLeft(suffix), TrimLeft(input))
         ELSE IF input = <<>> \/ Head(input) # Head(suffix)
              THEN [ok |-> FALSE, rest |-> input]
              ELSE Advance(Tail(suffix), Tail(input))

\* A scan that keeps the value only when the whole format matched.
StoreIfSuffixMatches(val, sufOk) == IF sufOk THEN val ELSE Zero

\* The store of the scanned value happens in scanOne, before the rest of the
\* format is matched: a mismatch after the verb leaves the value stored.
StoreBeforeSuffix(val, sufOk) == val

\* scanOne stores the value of a token strconv.ParseFloat accepts; the rest of
\* the format is matched after that.
ScanOne(t, suffix) ==
    IF ~ParseFloatOk(t)
    THEN [val |-> Zero, n |-> 0, err |-> TRUE]
    ELSE [val |-> StoreBeforeSuffix(ParseFloat(t), Advance(suffix, t.rest).ok),
          n |-> 1, err |-> ~Advance(suffix, t.rest).ok]

\* Sscanf(text, "%f" \o suffix, &v) on v = 0: the value left in v, the count
\* of stored operands and whether an error was returned.  The verb skips the
\* leading spaces and fails at the end of the input.
Sscanf(text, suffix) ==
    IF TrimLeft(text) = <<>>
    THEN [val |-> Zero, n |-> 0, err |-> TRUE]
    ELSE ScanOne(FloatToken(TrimLeft(text)), suffix)

\* The suffixes of the five formats the scrape uses.
SufHz == <<" ", "H", "z">>
SufdBmV == <<" ", "d", "B", "m", "V">>
SufdB == <<" ", "d", "B">>
SufKsym == <<" ", "K", "s", "y", "m", "/", "s", "e", "c">>
SufBare == <<>>
Suffixes == {SufHz, SufdBmV, SufdB, SufKsym, SufBare}

-----------------------------------------------------------------------------
(* Unit normalisation *)

\* fmt.Sprintf("%0.2f MHz", freqHZ/1e6): the value in Hz divided by 10^6 and
\* rounded to two decimals.  A value exactly half way between two hundredths
\* is rounded by its binary representation in the program; no input of the
\* bounded sets below is such a tie.
FormatMHz(hz) ==
    LET d == Pow10(hz.e + 4)
        a == IF hz.m < 0 THEN 0 - hz.m ELSE hz.m
        q == a \div d
        h == IF 2 * (a % d) >= d THEN q + 1 ELSE q
        sign == IF hz.m < 0 THEN <<"-">> ELSE <<>>
    IN  sign \o NatText(h \div 100)
             \o <<".", DigitChars[((h % 100) \div 10) + 1], DigitChars[(h % 10) + 1]>>
             \o <<" ", "M", "H", "z">>

\* symbolRate = kSymRate * 1000
KsymToSym(k) ==
    IF k.e >= 3 THEN Norm(k.m, k.e - 3) ELSE Norm(k.m * Pow10(3 - k.e), 0)

-----------------------------------------------------------------------------
(* The metric descriptors of NewExporter *)

namespace == "netgear_cm"

\* prometheus.BuildFQName joins its non-empty parts with "_".
BuildFQName(ns, subsystem, name) == ns \o "_" \o subsystem \o "_" \o name

dsLabelNames == <<"channel", "lock_status", "modulation", "channel_id", "frequency">>
usLabelNames == <<"channel", "lock_status", "channel_type", "channel_id", "frequency">>

NewDesc(fqName, labelNames) == [fqName |-> fqName, variableLabels |-> labelNames]

totalScrapesDesc == NewDesc(namespace \o "_" \o "status_scrapes_total", <<>>)
scrapeErrorsDesc == NewDesc(namespace \o "_" \o "status_scrape_errors_total", <<>>)
dsChannelSNR ==
    NewDesc(BuildFQName(namespace, "downstream_channel", "snr_db"), dsLabelNames)
dsChannelPower ==
    NewDesc(BuildFQName(namespace, "downstream_channel", "power_dbmv"), dsLabelNames)
dsChannelCorrectableErrs ==
    NewDesc(BuildFQName(namespace, "downstream_channel", "correctable_errors_total"),
            dsLabelNames)
dsChannelUncorrectableErrs ==
    NewDesc(BuildFQName(namespace, "downstream_channel", "uncorrectable_errors_total"),
            dsLabelNames)
usChannelPower ==
    NewDesc(BuildFQName(namespace, "upstream_channel", "power_dbmv"), usLabelNames)
usChannelSymbolRate ==
    NewDesc(BuildFQName(namespace, "upstream_channel", "power_symbol_rate"), usLabelNames)

\* prometheus.MustNewConstMetric(desc, valueType, value, labels...): one sample.
MustNewConstMetric(desc, valueType, value, labels) ==
    [name |-> desc.fqName, type |-> valueType, labelNames |-> desc.variableLabels,
     labels |-> labels, val |-> value]

-----------------------------------------------------------------------------
(* The row callbacks.  A row is the sequence of the texts of its td cells,   *)
(* a table body the sequence of its tr rows.                                 *)

DsRowVars ==
    [channel |-> <<>>, lockStatus |-> <<>>, modulation |-> <<>>, channelID |-> <<>>,
     freqMHz |-> <<>>, snr |-> Zero, power |-> Zero, corrErrs |-> Zero,
     unCorrErrs |-> Zero]

\* The downstream switch with the power and SNR columns exchanged.
DsCellSwapped(r, j, text) ==
    CASE j = 0 -> [r EXCEPT !.channel = TrimSpace(text)]
      [] j = 1 -> [r EXCEPT !.lockStatus = TrimSpace(text)]
      [] j = 2 -> [r EXCEPT !.modulation = TrimSpace(text)]
      [] j = 3 -> [r EXCEPT !.channelID = TrimSpace(text)]
      [] j = 4 -> [r EXCEPT !.freqMHz = FormatMHz(Sscanf(TrimSpace(text), SufHz).val)]
      [] j = 5 -> [r EXCEPT !.snr = Sscanf(TrimSpace(text), SufdB).val]
      [] j = 6 -> [r EXCEPT !.power = Sscanf(TrimSpace(text), SufdBmV).val]
      [] j = 7 -> [r EXCEPT !.corrErrs = Sscanf(TrimSpace(text), SufBare).val]
      [] j = 8 -> [r EXCEPT !.unCorrErrs = Sscanf(TrimSpace(text), SufBare).val]
      [] OTHER -> r

\* One step of row.Find("td").Each in the downstream callback: the switch on j.
DsCell(r, j, text) ==
    CASE j = 0 -> [r EXCEPT !.channel = TrimSpace(text)]
      [] j = 1 -> [r EXCEPT !.lockStatus = TrimSpace(text)]
      [] j = 2 -> [r EXCEPT !.modulation = TrimSpace(text)]
      [] j = 3 -> [r EXCEPT !.channelID = TrimSpace(text)]
      [] j = 4 -> [r EXCEPT !.freqMHz = FormatMHz(Sscanf(TrimSpace(text), SufHz).val)]
      [] j = 5 -> [r EXCEPT !.power = Sscanf(TrimSpace(text), SufdBmV).val]
      [] j = 6 -> [r EXCEPT !.snr = Sscanf(TrimSpace(text), SufdB).val]
      [] j = 7 -> [r EXCEPT !.corrErrs = Sscanf(TrimSpace(text), SufBare).val]
      [] j = 8 -> [r EXCEPT !.unCorrErrs = Sscanf(TrimSpace(text), SufBare).val]
      [] OTHER -> r

RECURSIVE DsCells(_, _, _)
DsCells(r, row, j) ==
    IF j >= Len(row) THEN r ELSE DsCells(DsCell(r, j, row[j + 1]), row, j + 1)

\* The four samples the downstream callback sends for one row.
DsRowMetrics(row) ==
    LET r == DsCells(DsRowVars, row, 0)
        labels == <<r.channel, r.lockStatus, r.modulation, r.channelID, r.freqMHz>>
    IN  <<MustNewConstMetric(dsChannelSNR, "gauge", r.snr, labels),
          MustNewConstMetric(dsChannelPower, "gauge", r.power, labels),
          MustNewConstMetric(dsChannelCorrectableErrs, "counter", r.corrErrs, labels),
          MustNewConstMetric(dsChannelUncorrectableErrs, "counter", r.unCorrErrs, labels)>>

UsRowVars ==
    [channel |-> <<>>, lockStatus |-> <<>>, channelType |-> <<>>, channelID |-> <<>>,
     symbolRate |-> Zero, freqMHz |-> <<>>, power |-> Zero]

\* One step of row.Find("td").Each in the upstream callback.
UsCell(r, j, text) ==
    CASE j = 0 -> [r EXCEPT !.channel = TrimSpace(text)]
      [] j = 1 -> [r EXCEPT !.lockStatus = TrimSpace(text)]
      [] j = 2 -> [r EXCEPT !.channelType = TrimSpace(text)]
      [] j = 3 -> [r EXCEPT !.channelID = TrimSpace(text)]
      [] j = 4 -> [r EXCEPT !.symbolRate = KsymToSym(Sscanf(TrimSpace(text), SufKsym).val)]
      [] j = 5 -> [r EXCEPT !.freqMHz = FormatMHz(Sscanf(TrimSpace(text), SufHz).val)]
      [] j = 6 -> [r EXCEPT !.power = Sscanf(TrimSpace(text), SufdBmV).val]
      [] OTHER -> r

RECURSIVE UsCells(_, _, _)
UsCells(r, row, j) ==
    IF j >= Len(row) THEN r ELSE UsCells(UsCell(r, j, row[j + 1]), row, j + 1)

\* The two samples the upstream callback sends for one row.
UsRowMetrics(row) ==
    LET r == UsCells(UsRowVars, row, 0)
        labels == <<r.channel, r.lockStatus, r.channelType, r.channelID, r.freqMHz>>
    IN  <<MustNewConstMetric(usChannelPower, "gauge", r.power, labels),
          MustNewConstMetric(usChannelSymbolRate, "gauge", r.symbolRate, labels)>>

\* A scanner that skips no row.
SkipNoRow(i) == FALSE

\* if i == 0 { return }
SkipRow(i) == i = 0

\* elem.DOM.Find("tr").Each of the #dsTable tbody callback: what it sends on
\* ch for the rows from index i on.
RECURSIVE DsTableEach(_, _)
DsTableEach(rows, i) ==
    IF i >= Len(rows) THEN <<>>
    ELSE (IF SkipRow(i) THEN <<>> ELSE DsRowMetrics(rows[i + 1]))
         \o DsTableEach(rows, i + 1)

RECURSIVE UsTableEach(_, _)
UsTableEach(rows, i) ==
    IF i >= Len(rows) THEN <<>>
    ELSE (IF SkipRow(i) THEN <<>> ELSE UsRowMetrics(rows[i + 1]))
         \o UsTableEach(rows, i + 1)

\* c.OnHTML fires its callback once for every element the selector matches.
RECURSIVE OnHTMLds(_)
OnHTMLds(tbodies) ==
    IF tbodies = <<>> THEN <<>>
    ELSE DsTableEach(Head(tbodies), 0) \o OnHTMLds(Tail(tbodies))

RECURSIVE OnHTMLus(_)
OnHTMLus(tbodies) ==
    IF tbodies = <<>> THEN <<>>
    ELSE UsTableEach(Head(tbodies), 0) \o OnHTMLus(Tail(tbodies))

-----------------------------------------------------------------------------
(* main(): configuration, registration, serving *)

Unset == "<unset>"

\* One flag of ff.Parse: a value of the command line wins; without one the
\* value comes from the environment or from the config file (which of the two
\* wins when both give one is the library's choice: either is allowed here);
\* without any the flag keeps its default.
Resolve(src, default) ==
    IF src.flag # Unset THEN {src.flag}
    ELSE IF {src.env, src.file} \ {Unset} = {} THEN {default}
    ELSE {src.env, src.file} \ {Unset}

\* The flag sets main() can hold after ff.Parse: no flag is required, and the
\* default of modem.password is the empty string.
ParseFlags(args) ==
    {[listenAddress |-> "localhost:9526",
      metricsPath |-> "/metrics",
      modemAddress |-> a,
      modemUsername |-> "admin",
      modemPassword |-> p] :
        a \in Resolve(args.address, "192.168.100.1"),
        p \in Resolve(args.password, "")}

\* NewExporter: the status page's URL and the credentials of the Authorization
\* header (their base64 encoding is not modelled).
NewExporter(addr, username, password) ==
    [url |-> "http://" \o addr \o "/DocsisStatus.asp",
     authHeaderValue |-> <<"Basic", username, password>>]

NoFlags == [none |-> TRUE]
NoExporter == [none |-> TRUE]

\* ff.Parse(fs, os.Args[1:], ...): a flag the flag set does not define ends
\* the process (flag.ExitOnError); the error ff.Parse returns is not looked at.
MainParse ==
    /\ mainPc = "start"
    /\ IF osArgs.undefinedFlag
       THEN mainPc' = "exit" /\ flags' = flags
       ELSE mainPc' = "parsed" /\ flags' \in ParseFlags(osArgs)
    /\ UNCHANGED <<osArgs, exporter>>
    /\ UNCHANGED scrapeVars /\ UNCHANGED fnVars

\* exporter := NewExporter(...); prometheus.MustRegister(exporter)
MainRegister ==
    /\ mainPc = "parsed"
    /\ exporter' = NewExporter(flags.modemAddress, flags.modemUsername, flags.modemPassword)
    /\ mainPc' = "registered"
    /\ UNCHANGED <<osArgs, flags>>
    /\ UNCHANGED scrapeVars /\ UNCHANGED fnVars

\* http.ListenAndServe: the listener is bound and requests are served, or it
\* fails at once and log.Fatalf ends the process.
MainListen ==
    /\ mainPc = "registered"
    /\ \E bound \in BOOLEAN : mainPc' = IF bound THEN "serving" ELSE "fatal"
    /\ UNCHANGED <<osArgs, flags, exporter>>
    /\ UNCHANGED scrapeVars /\ UNCHANGED fnVars

\* config.go, NewConfigFromFile: the file is read and parsed over the defaults;
\* an unreadable file, an unparsable one and an empty password are errors.
\* main() never calls it.
NewConfigFromFile(file) ==
    IF ~file.readable THEN [err |-> "failed to read config file"]
    ELSE IF ~file.yaml THEN [err |-> "unable to parse config YAML"]
    ELSE LET password == IF file.password = Unset THEN "" ELSE file.password
         IN  IF password = "" THEN [err |-> "modem password isn't set in config"]
             ELSE [err |-> "",
                   config |-> [Modem |-> [Address |-> "192.168.100.1",
                                          Username |-> "admin",
                                          Password |-> password],
                               Telemetry |-> [ListenAddress |-> ":9527",
                                              MetricsPath |-> "/metrics"]]]

-----------------------------------------------------------------------------
(* Exporter.Collect, one invocation per scrape request, run by the handler   *)
(* goroutines of the metrics endpoint.                                       *)

NumProcs == 2
MaxScrapes == 3
MaxDocRows == 2

Procs == 1..NumProcs

NoResp == [kind |-> "none"]

\* The cells of the two example rows of the status page.
Txt0 == <<"0">>
Txt1 == <<"1">>
Txt5 == <<"5">>
Txt15 == <<"1", "5">>
TxtLocked == <<"L", "o", "c", "k", "e", "d">>
TxtQAM256 == <<"Q", "A", "M", "2", "5", "6">>
TxtATDMA == <<"A", "T", "D", "M", "A">>
Txt602MHz == <<"6", "0", "2", "0", "0", "0", "0", "0", "0", " ", "H", "z">>
Txt39MHz == <<"3", "9", "0", "0", "8", "0", "0", "0", " ", "H", "z">>
Txt06dBmV == <<"0", ".", "6", " ", "d", "B", "m", "V">>
Txt41dBmV == <<"4", "1", ".", "0", " ", "d", "B", "m", "V">>
Txt385dB == <<"3", "8", ".", "5", " ", "d", "B">>
Txt5120Ksym == <<"5", "1", "2", "0", " ", "K", "s", "y", "m", "/", "s", "e", "c">>

DsExample ==
    <<Txt1, TxtLocked, TxtQAM256, Txt5, Txt602MHz, Txt06dBmV, Txt385dB, Txt15, Txt0>>
UsExample ==
    <<Txt1, TxtLocked, TxtATDMA, Txt1, Txt5120Ksym, Txt39MHz, Txt41dBmV>>
\* A row of th cells has no td cell.
HeaderRow == <<>>

RECURSIVE Repeat(_, _)
Repeat(row, n) == IF n = 0 THEN <<>> ELSE <<row>> \o Repeat(row, n - 1)

\* What the selector "#xxTable tbody" matches in a page: nothing, an empty
\* tbody, or a tbody of a header row and up to MaxDocRows channel rows.
Bodies(row) ==
    {<<>>, << <<>> >>} \cup {<< <<HeaderRow>> \o Repeat(row, n) >> : n \in 0..MaxDocRows}

\* What c.Visit can end with: a page, or a transport or HTTP-level error.
Responses ==
    {[kind |-> "ok", ds |-> d, us |-> u] : d \in Bodies(DsExample), u \in Bodies(UsExample)}
    \cup {[kind |-> "error", cause |-> c] : c \in {"transport", "http"}}

\* The two OnHTML callbacks as functions of what a fetched page can hold:
\* the samples each sends for each match of its selector.
OnHTMLdsOf == [b \in Bodies(DsExample) |-> OnHTMLds(b)]
OnHTMLusOf == [b \in Bodies(UsExample) |-> OnHTMLus(b)]

\* A counter whose Inc is lost.
CounterNoInc(c) == c

\* prometheus.Counter.Inc
CounterInc(c) == c + 1

\* prometheus.Counter.Collect(ch): one sample holding the counter's value.
CounterCollect(desc, c) == MustNewConstMetric(desc, "counter", Int2Num(c), <<>>)

\* A mutex that never makes a caller wait.
MutexFreeAlways == TRUE

\* sync.Mutex.Lock returns only when the mutex is free.
MutexFree == mu = 0

\* e.totalScrapes.Inc(); the collector and its callbacks are set up.
CollectInc(g) ==
    /\ mainPc = "serving"
    /\ pending > 0
    /\ pc[g] = "idle"
    /\ pending' = pending - 1
    /\ totalScrapes' = CounterInc(totalScrapes)
    /\ pc' = [pc EXCEPT ![g] = "lock"]
    /\ UNCHANGED <<mu, scrapeErrors, failedFetches, resp, ch, returned>>
    /\ UNCHANGED mainVars /\ UNCHANGED fnVars

\* Collect without the wait for the mutex.
LockNoWait(g) ==
    /\ pc[g] = "lock"
    /\ mu' = g
    /\ pc' = [pc EXCEPT ![g] = "visit"]
    /\ UNCHANGED <<pending, totalScrapes, scrapeErrors, failedFetches, resp, ch, returned>>
    /\ UNCHANGED mainVars /\ UNCHANGED fnVars

\* e.mu.Lock()
Lock(g) ==
    /\ pc[g] = "lock"
    /\ MutexFree
    /\ mu' = g
    /\ pc' = [pc EXCEPT ![g] = "visit"]
    /\ UNCHANGED <<pending, totalScrapes, scrapeErrors, failedFetches, resp, ch, returned>>
    /\ UNCHANGED mainVars /\ UNCHANGED fnVars

\* c.Visit(e.url), the request: it ends with a page or with an error.
VisitFetch(g) ==
    /\ pc[g] = "visit"
    /\ \E r \in Responses :
          /\ resp' = [resp EXCEPT ![g] = r]
          /\ pc' = [pc EXCEPT ![g] = IF r.kind = "error" THEN "onError" ELSE "dsTable"]
          /\ failedFetches' = IF r.kind = "error" THEN failedFetches + 1 ELSE failedFetches
    /\ UNCHANGED <<pending, mu, totalScrapes, scrapeErrors, ch, returned>>
    /\ UNCHANGED mainVars /\ UNCHANGED fnVars

\* An OnError callback that counts the error and has the page fetched again.
VisitOnErrorRetry(g) ==
    /\ pc[g] = "onError"
    /\ scrapeErrors' = CounterInc(scrapeErrors)
    /\ pc' = [pc EXCEPT ![g] = "visit"]
    /\ UNCHANGED <<pending, mu, totalScrapes, failedFetches, resp, ch, returned>>
    /\ UNCHANGED mainVars /\ UNCHANGED fnVars

\* c.Visit(e.url), the OnError callback; Visit returns after it.
VisitOnError(g) ==
    /\ pc[g] = "onError"
    /\ scrapeErrors' = CounterInc(scrapeErrors)
    /\ pc' = [pc EXCEPT ![g] = "collectTotal"]
    /\ UNCHANGED <<pending, mu, totalScrapes, failedFetches, resp, ch, returned>>
    /\ UNCHANGED mainVars /\ UNCHANGED fnVars

\* c.Visit(e.url), the OnHTML callback of "#dsTable tbody".
VisitDsTable(g) ==
    /\ pc[g] = "dsTable"
    /\ ch' = [ch EXCEPT ![g] = ch[g] \o OnHTMLdsOf[resp[g].ds]]
    /\ pc' = [pc EXCEPT ![g] = "usTable"]
    /\ UNCHANGED <<pending, mu, totalScrapes, scrapeErrors, failedFetches, resp, returned>>
    /\ UNCHANGED mainVars /\ UNCHANGED fnVars

\* c.Visit(e.url), the OnHTML callback of "#usTable tbody"; Visit returns after it.
VisitUsTable(g) ==
    /\ pc[g] = "usTable"
    /\ ch' = [ch EXCEPT ![g] = ch[g] \o OnHTMLusOf[resp[g].us]]
    /\ pc' = [pc EXCEPT ![g] = "collectTotal"]
    /\ UNCHANGED <<pending, mu, totalScrapes, scrapeErrors, failedFetches, resp, returned>>
    /\ UNCHANGED mainVars /\ UNCHANGED fnVars

\* A Collect that does not publish the attempted counter.
CollectTotalSkip(g) ==
    /\ pc[g] = "collectTotal"
    /\ pc' = [pc EXCEPT ![g] = "collectErrors"]
    /\ UNCHANGED <<pending, mu, totalScrapes, scrapeErrors, failedFetches, resp, ch, returned>>
    /\ UNCHANGED mainVars /\ UNCHANGED fnVars

\* e.totalScrapes.Collect(ch)
CollectTotal(g) ==
    /\ pc[g] = "collectTotal"
    /\ ch' = [ch EXCEPT ![g] = Append(ch[g], CounterCollect(totalScrapesDesc, totalScrapes))]
    /\ pc' = [pc EXCEPT ![g] = "collectErrors"]
    /\ UNCHANGED <<pending, mu, totalScrapes, scrapeErrors, failedFetches, resp, returned>>
    /\ UNCHANGED mainVars /\ UNCHANGED fnVars

\* e.scrapeErrors.Collect(ch)
CollectErrors(g) ==
    /\ pc[g] = "collectErrors"
    /\ ch' = [ch EXCEPT ![g] = Append(ch[g], CounterCollect(scrapeErrorsDesc, scrapeErrors))]
    /\ pc' = [pc EXCEPT ![g] = "unlock"]
    /\ UNCHANGED <<pending, mu, totalScrapes, scrapeErrors, failedFetches, resp, returned>>
    /\ UNCHANGED mainVars /\ UNCHANGED fnVars

\* A return from Collect that leaves the mutex locked.
UnlockKeepsMutex(g) ==
    /\ pc[g] = "unlock"
    /\ mu' = mu
    /\ pc' = [pc EXCEPT ![g] = "idle"]
    /\ resp' = [resp EXCEPT ![g] = NoResp]
    /\ ch' = [ch EXCEPT ![g] = <<>>]
    /\ returned' = returned + 1
    /\ UNCHANGED <<pending, totalScrapes, scrapeErrors, failedFetches>>
    /\ UNCHANGED mainVars /\ UNCHANGED fnVars

\* e.mu.Unlock(), and Collect returns: the registry has taken the samples of
\* ch, and nothing of the fetched page is kept.
Unlock(g) ==
    /\ pc[g] = "unlock"
    /\ mu' = 0
    /\ pc' = [pc EXCEPT ![g] = "idle"]
    /\ resp' = [resp EXCEPT ![g] = NoResp]
    /\ ch' = [ch EXCEPT ![g] = <<>>]
    /\ returned' = returned + 1
    /\ UNCHANGED <<pending, totalScrapes, scrapeErrors, failedFetches>>
    /\ UNCHANGED mainVars /\ UNCHANGED fnVars

Collect(g) ==
    \/ CollectInc(g)
    \/ Lock(g)
    \/ VisitFetch(g)
    \/ VisitOnError(g)
    \/ VisitDsTable(g)
    \/ VisitUsTable(g)
    \/ CollectTotal(g)
    \/ CollectErrors(g)
    \/ Unlock(g)

\* The exporter of a process started with -modem.password foobaz.
ServingArgs ==
    [undefinedFlag |-> FALSE,
     address |-> [flag |-> Unset, env |-> Unset, file |-> Unset],
     password |-> [flag |-> "foobaz", env |-> Unset, file |-> Unset]]

InitServing ==
    /\ mainPc = "serving"
    /\ osArgs = ServingArgs
    /\ flags \in ParseFlags(ServingArgs)
    /\ exporter = NewExporter(flags.modemAddress, flags.modemUsername, flags.modemPassword)

InitScrape(n) ==
    /\ pending = n
    /\ pc = [g \in Procs |-> "idle"]
    /\ mu = 0
    /\ totalScrapes = 0
    /\ scrapeErrors = 0
    /\ failedFetches = 0
    /\ resp = [g \in Procs |-> NoResp]
    /\ ch = [g \in Procs |-> <<>>]
    /\ returned = 0

NoRes == [none |-> TRUE]

InitNoFn ==
    /\ fn = "none"
    /\ arg = NoRes
    /\ res = NoRes

\* The serving exporter under MaxScrapes scrape requests.
Init == InitServing /\ InitScrape(MaxScrapes) /\ InitNoFn

Next == \E g \in Procs : Collect(g)

Spec == Init /\ [][Next]_vars

\* The steps of Collect between c.Visit's response and the return: callbacks,
\* counter reads and the unlock, none of which waits for anything.
Finish(g) ==
    \/ VisitOnError(g)
    \/ VisitDsTable(g)
    \/ VisitUsTable(g)
    \/ CollectTotal(g)
    \/ CollectErrors(g)
    \/ Unlock(g)

\* What the runtime and the fetch collaborator give a goroutine in Collect:
\* a goroutine that can run does run (WF on the steps that wait for nothing);
\* every fetch returns, with a page or an error (WF on VisitFetch: the
\* assumption under which termination is claimed); and a goroutine blocked in
\* e.mu.Lock() is not overtaken forever (SF on Lock: sync.Mutex hands the
\* mutex to a waiter that has waited long, its starvation mode).  Nothing
\* obliges the registry to call Collect: CollectInc has no fairness.
Fairness ==
    \A g \in Procs :
        /\ SF_vars(Lock(g))
        /\ WF_vars(VisitFetch(g))
        /\ WF_vars(Finish(g))

\* The serving exporter under scrape requests whose fetches all return.
SpecLive == Init /\ [][Next]_vars /\ Fairness

-----------------------------------------------------------------------------
(* The field parser on its own: a cell text is built from a number text, a   *)
(* separator and a unit, inside optional outer spaces, and scanned with one  *)
(* of the five formats as the row callbacks scan it.                         *)

NoNum == [none |-> TRUE]

\* Number texts with the value each denotes (NoNum: not a float literal).
NumCases ==
    <<[txt |-> <<"3", "8", ".", "5">>, val |-> [m |-> 385, e |-> 1]],
      [txt |-> <<"0", ".", "6">>, val |-> [m |-> 6, e |-> 1]],
      [txt |-> <<"4", "1", ".", "0">>, val |-> [m |-> 41, e |-> 0]],
      [txt |-> <<"6", "0", "2", "0", "0", "0", "0", "0", "0">>,
       val |-> [m |-> 602000000, e |-> 0]],
      [txt |-> <<"-", "1", ".", "5">>, val |-> [m |-> 0 - 15, e |-> 1]],
      [txt |-> <<"1", "5">>, val |-> [m |-> 15, e |-> 0]],
      [txt |-> <<".", "5">>, val |-> [m |-> 5, e |-> 1]],
      [txt |-> <<"1", "e", "3">>, val |-> [m |-> 1000, e |-> 0]],
      [txt |-> <<>>, val |-> NoNum],
      [txt |-> <<"a", "b", "c">>, val |-> NoNum],
      [txt |-> <<".">>, val |-> NoNum],
      [txt |-> <<"-">>, val |-> NoNum]>>

Separators == {<<>>, <<" ">>, <<" ", " ">>}
Units == {<<>>, <<"H", "z">>, <<"d", "B">>, <<"d", "B", "m", "V">>,
          <<"K", "s", "y", "m", "/", "s", "e", "c">>, <<"M", "H", "z">>}
Pads == {<<>>, <<" ">>}

ScanArgs ==
    {[num |-> n, sep |-> sp, unit |-> u, suffix |-> f,
      cell |-> pad \o NumCases[n].txt \o sp \o u \o pad] :
        n \in 1..Len(NumCases), sp \in Separators, u \in Units, f \in Suffixes,
        pad \in Pads}

\* fmt.Sscanf(strings.TrimSpace(col.Text()), format, &v)
ApplySscanf ==
    /\ fn = "Sscanf"
    /\ res = NoRes
    /\ res' = Sscanf(TrimSpace(arg.cell), arg.suffix)
    /\ UNCHANGED <<fn, arg>>
    /\ UNCHANGED mainVars /\ UNCHANGED scrapeVars

InitScanf ==
    /\ InitServing /\ InitScrape(0)
    /\ fn = "Sscanf"
    /\ arg \in ScanArgs
    /\ res = NoRes

SpecScanf == InitScanf /\ [][ApplySscanf]_vars

-----------------------------------------------------------------------------
(* The table and row callbacks on their own *)

MaxRows == 5

\* Rows a table body is built from, with the channel label each yields:
\* a header row, the example row, a short row, a row of malformed cells.
TxtAbc == <<"a", "b", "c">>
DsBasicRows ==
    <<[cells |-> HeaderRow, channel |-> <<>>],
      [cells |-> DsExample, channel |-> Txt1],
      [cells |-> <<Txt5, TxtLocked>>, channel |-> Txt5],
      [cells |-> <<Txt15, TxtLocked, TxtQAM256, Txt5, TxtAbc, <<>>, <<"x">>, <<"-">>, <<".">>>>,
       channel |-> Txt15]>>
UsBasicRows ==
    <<[cells |-> HeaderRow, channel |-> <<>>],
      [cells |-> UsExample, channel |-> Txt1],
      [cells |-> <<Txt5>>, channel |-> Txt5],
      [cells |-> <<Txt15, TxtLocked, TxtATDMA, Txt1, TxtAbc, <<>>, <<"x">>>>,
       channel |-> Txt15]>>
BasicRows(f) == IF f = "dsTable" THEN DsBasicRows ELSE UsBasicRows
ExampleRow(f) == IF f = "dsTable" THEN DsExample ELSE UsExample

\* Cell texts with what each yields as a label (trim), as a scanned number
\* (num), as a frequency label (mhz) and as a symbol rate (sym).
CellCases ==
    <<[txt |-> <<" ", "7", " ">>, trim |-> <<"7">>, num |-> [m |-> 7, e |-> 0],
       mhz |-> <<"0", ".", "0", "0", " ", "M", "H", "z">>, sym |-> [m |-> 7000, e |-> 0]],
      [txt |-> <<"1", "5", "0", "0", "0", "0", "0", " ", "H", "z">>,
       trim |-> <<"1", "5", "0", "0", "0", "0", "0", " ", "H", "z">>,
       num |-> [m |-> 1500000, e |-> 0],
       mhz |-> <<"1", ".", "5", "0", " ", "M", "H", "z">>,
       sym |-> [m |-> 1500000000, e |-> 0]],
      [txt |-> <<>>, trim |-> <<>>, num |-> Zero,
       mhz |-> <<"0", ".", "0", "0", " ", "M", "H", "z">>, sym |-> Zero],
      [txt |-> <<" ", " ">>, trim |-> <<>>, num |-> Zero,
       mhz |-> <<"0", ".", "0", "0", " ", "M", "H", "z">>, sym |-> Zero],
      [txt |-> TxtAbc, trim |-> TxtAbc, num |-> Zero,
       mhz |-> <<"0", ".", "0", "0", " ", "M", "H", "z">>, sym |-> Zero],
      [txt |-> <<"-", "1", ".", "5", " ", "d", "B", "m", "V">>,
       trim |-> <<"-", "1", ".", "5", " ", "d", "B", "m", "V">>,
       num |-> [m |-> 0 - 15, e |-> 1],
       mhz |-> <<"-", "0", ".", "0", "0", " ", "M", "H", "z">>,
       sym |-> [m |-> 0 - 1500, e |-> 0]],
      [txt |-> <<"3", "8", ".", "5", " ", "d", "B">>,
       trim |-> <<"3", "8", ".", "5", " ", "d", "B">>,
       num |-> [m |-> 385, e |-> 1],
       mhz |-> <<"0", ".", "0", "0", " ", "M", "H", "z">>,
       sym |-> [m |-> 38500, e |-> 0]],
      [txt |-> <<"5", "1", "2", "0", " ", "K", "s", "y", "m", "/", "s", "e", "c">>,
       trim |-> <<"5", "1", "2", "0", " ", "K", "s", "y", "m", "/", "s", "e", "c">>,
       num |-> [m |-> 5120, e |-> 0],
       mhz |-> <<"0", ".", "0", "1", " ", "M", "H", "z">>,
       sym |-> [m |-> 5120000, e |-> 0]]>>

\* Inputs of the table callbacks: a table body of up to MaxRows basic rows
\* ("rows"); a header row and the example row with cell j replaced ("subst"),
\* cut to its first k cells ("prefix") or followed by one more cell ("extra").
TableArgs(f) ==
    {[kind |-> "rows", ids |-> ids,
      table |-> [i \in 1..Len(ids) |-> BasicRows(f)[ids[i]].cells]] :
        ids \in UNION {[1..n -> 1..Len(BasicRows(f))] : n \in 0..MaxRows}}
    \cup {[kind |-> "subst", j |-> j, v |-> v,
           table |-> <<HeaderRow, [ExampleRow(f) EXCEPT ![j + 1] = CellCases[v].txt]>>] :
             j \in 0..(Len(ExampleRow(f)) - 1), v \in 1..Len(CellCases)}
    \cup {[kind |-> "prefix", k |-> k,
           table |-> <<HeaderRow, Take(ExampleRow(f), k)>>] :
             k \in 0..Len(ExampleRow(f))}
    \cup {[kind |-> "extra", v |-> v,
           table |-> <<HeaderRow, Append(ExampleRow(f), CellCases[v].txt)>>] :
             v \in 1..Len(CellCases)}

\* The callback of c.OnHTML("#dsTable tbody") on one table body.
ApplyDsTable ==
    /\ fn = "dsTable"
    /\ res = NoRes
    /\ res' = OnHTMLds(<<arg.table>>)
    /\ UNCHANGED <<fn, arg>>
    /\ UNCHANGED mainVars /\ UNCHANGED scrapeVars

\* The callback of c.OnHTML("#usTable tbody") on one table body.
ApplyUsTable ==
    /\ fn = "usTable"
    /\ res = NoRes
    /\ res' = OnHTMLus(<<arg.table>>)
    /\ UNCHANGED <<fn, arg>>
    /\ UNCHANGED mainVars /\ UNCHANGED scrapeVars

InitTable ==
    /\ InitServing /\ InitScrape(0)
    /\ fn \in {"dsTable", "usTable"}
    /\ arg \in TableArgs(fn)
    /\ res = NoRes

SpecTable == InitTable /\ [][ApplyDsTable \/ ApplyUsTable]_vars

-----------------------------------------------------------------------------
(* The process from its start *)

\* The configuration sources of a start: a command line with or without an
\* undefined flag, the modem address given or not on it, the password given or
\* not on the command line, in the environment and in the config file.
ArgSets ==
    {[undefinedFlag |-> u,
      address |-> [flag |-> a, env |-> Unset, file |-> Unset],
      password |-> [flag |-> pf, env |-> pe, file |-> pc_]] :
        u \in BOOLEAN,
        a \in {Unset, "10.0.0.1"},
        pf \in {Unset, "", "foobaz"},
        pe \in {Unset, "envpw"},
        pc_ \in {Unset, "", "filepw"}}

InitMain ==
    /\ mainPc = "start"
    /\ osArgs \in ArgSets
    /\ flags = NoFlags
    /\ exporter = NoExporter
    /\ InitScrape(1)
    /\ InitNoFn

NextMain == MainParse \/ MainRegister \/ MainListen \/ Next

SpecMain == InitMain /\ [][NextMain]_vars

-----------------------------------------------------------------------------
(* Properties of the scrape cycle *)

\* An invocation between the start of its fetch and the end of its
\* publication (the mutex is not yet released at "unlock").
InCycle(g) ==
    pc[g] \in {"visit", "onError", "dsTable", "usTable", "collectTotal",
               "collectErrors", "unlock"}

\* Invocations of Collect begun, and invocations that have acquired the mutex.
Invoked == returned + Cardinality({g \in Procs : pc[g] # "idle"})
Acquired == returned + Cardinality({g \in Procs : InCycle(g)})

CounterNames == {totalScrapesDesc.fqName, scrapeErrorsDesc.fqName}
Samples(g) == {ch[g][i] : i \in 1..Len(ch[g])}
ChannelReadings(g) == {m \in Samples(g) : m.name \notin CounterNames}

\* C1: the fetch, parse and publish steps of two invocations never interleave:
\* at most one invocation is between the start of its fetch and the end of its
\* publication, it holds the mutex, and an invocation waiting to fetch cannot
\* proceed until that one has finished.
C1_CyclesSerialized ==
    /\ \A g, h \in Procs : InCycle(g) /\ InCycle(h) => g = h
    /\ \A g \in Procs : InCycle(g) => mu = g
    /\ \A h \in Procs :
          pc[h] = "lock" /\ (\E g \in Procs : InCycle(g)) => ~ENABLED Lock(h)

C1_Witness ==
    \E g, h \in Procs :
        /\ g # h
        /\ pc[g] = "usTable" /\ ch[g] # <<>>
        /\ pc[h] = "lock"

\* C2: every invocation increments the attempted counter exactly once, at its
\* start, whatever the fetch does: the counter is the number of invocations
\* begun, and once they have all returned it is the number of completed ones.
C2_AttemptedCountsInvocations ==
    /\ totalScrapes = Invoked
    /\ (\A g \in Procs : pc[g] = "idle") => totalScrapes = returned

C2_Witness ==
    /\ \A g \in Procs : pc[g] = "idle"
    /\ returned = MaxScrapes
    /\ failedFetches > 0 /\ failedFetches < returned

\* C3: every failed fetch is counted exactly once in the failed counter (a
\* successful one not at all), the failed cycle publishes no channel reading,
\* and it does not fetch again.
C3_FailedFetchCountedOnce ==
    /\ scrapeErrors + Cardinality({g \in Procs : pc[g] = "onError"}) = failedFetches
    /\ \A g \in Procs :
          resp[g].kind = "error" =>
              /\ ChannelReadings(g) = {}
              /\ pc[g] \in {"onError", "collectTotal", "collectErrors", "unlock"}

C3_Witness ==
    \E g \in Procs :
        /\ pc[g] = "unlock" /\ resp[g].kind = "error"
        /\ returned = 1 /\ scrapeErrors = 1 /\ failedFetches = 1
        /\ Len(ch[g]) = 2

\* The value published by invocation g for the counter of that name.
Published(g, name) == {m.val.m : m \in {x \in Samples(g) : x.name = name}}

\* C10, as claimed: every increment and every read of the two counters is made
\* under the mutex, so a published attempted count counts only cycles that have
\* acquired the mutex.
C10_Original ==
    \A g \in Procs : \A n \in Published(g, totalScrapesDesc.fqName) : n <= Acquired

\* C10, amended: the failed counter is incremented and both counters are read
\* for publication by the invocation that holds the mutex, so the published
\* failed count is the current one; the attempted counter is incremented
\* before the mutex is asked for, so the published attempted count lies between
\* the cycles that have acquired the mutex and the invocations begun.
C10_CountersUnderLock ==
    /\ [](\A g \in Procs :
            /\ pc[g] \in {"onError", "collectTotal", "collectErrors"} => mu = g
            /\ Samples(g) # {} => mu = g
            /\ \A n \in Published(g, scrapeErrorsDesc.fqName) : n = scrapeErrors
            /\ \A n \in Published(g, totalScrapesDesc.fqName) :
                  Acquired <= n /\ n <= Invoked)
    /\ [][/\ scrapeErrors' # scrapeErrors => mu # 0 /\ mu' = mu /\ pc[mu] = "onError"
          /\ totalScrapes' # totalScrapes =>
                \E g \in Procs : pc[g] = "idle" /\ pc'[g] = "lock" /\ mu # g]_vars

C10_Witness ==
    \E g \in Procs :
        /\ pc[g] = "unlock"
        /\ Published(g, totalScrapesDesc.fqName) = {2}
        /\ Acquired = 1

\* The state of the spec's cycle an invocation is in: waiting for the mutex is
\* not yet fetching; a cycle whose fetch failed stays Failed until it returns.
PhaseOf(p, r) ==
    CASE p \in {"idle", "lock"} -> "Idle"
      [] p = "visit" -> "Fetching"
      [] p = "onError" -> "Failed"
      [] p \in {"dsTable", "usTable"} -> "Parsing"
      [] OTHER -> IF r.kind = "error" THEN "Failed" ELSE "Publishing"

PhaseSteps ==
    {<<"Idle", "Fetching">>, <<"Fetching", "Parsing">>, <<"Parsing", "Publishing">>,
     <<"Publishing", "Idle">>, <<"Fetching", "Failed">>, <<"Failed", "Idle">>}

\* C11: every invocation moves Idle -> Fetching -> Parsing -> Publishing ->
\* Idle or Idle -> Fetching -> Failed -> Idle and along no other step; if
\* every fetch returns, every invocation that has begun, also one blocked on
\* the mutex, acquires the mutex, fetches, and returns with the mutex
\* released, after a page and after an error alike; and an invocation that is
\* not in a cycle holds nothing of a page or of its samples, so that with no
\* invocation in progress the mutex is free and the counters are all that is
\* left.
C11_CycleCompletes ==
    /\ [][\A g \in Procs :
            PhaseOf(pc'[g], resp'[g]) # PhaseOf(pc[g], resp[g]) =>
                <<PhaseOf(pc[g], resp[g]), PhaseOf(pc'[g], resp'[g])>> \in PhaseSteps]_vars
    /\ [](\A g \in Procs :
            pc[g] \in {"idle", "lock"} => resp[g] = NoResp /\ ch[g] = <<>> /\ mu # g)
    /\ []((\A g \in Procs : pc[g] = "idle") => mu = 0)
    /\ \A g \in Procs :
          /\ (pc[g] = "lock") ~> (pc[g] = "visit" /\ mu = g)
          /\ (pc[g] = "visit") ~> (pc[g] \in {"onError", "dsTable"})
          /\ (pc[g] # "idle" /\ resp[g].kind = "error") ~> (pc[g] = "idle" /\ mu # g)
          /\ (pc[g] # "idle" /\ resp[g].kind = "ok") ~> (pc[g] = "idle" /\ mu # g)

\* A later invocation fetches after a failed cycle has returned, while another
\* invocation waits for the mutex.
C11_Witness ==
    \E g, h \in Procs :
        /\ g # h
        /\ pc[g] = "visit" /\ mu = g
        /\ pc[h] = "lock"
        /\ scrapeErrors >= 1 /\ returned >= 1

\* The places in what invocation g has sent where the sample has that name.
PlacesOf(g, name) == {i \in 1..Len(ch[g]) : ch[g][i].name = name}

\* C12: the attempted and the failed counter never decrease, and failed is at
\* most attempted in every state; the failed count a cycle publishes is at
\* most the attempted count it publishes; and a cycle, failed or not, has sent
\* when it returns exactly one sample of each counter, the attempted one and
\* then the failed one, as the last two samples after all channel readings.
C12_CountersMonotone ==
    /\ [][totalScrapes' >= totalScrapes /\ scrapeErrors' >= scrapeErrors]_vars
    /\ [](scrapeErrors <= totalScrapes)
    /\ [](\A g \in Procs :
            /\ \A e \in Published(g, scrapeErrorsDesc.fqName) :
               \A t \in Published(g, totalScrapesDesc.fqName) : e <= t
            /\ \A i, j \in 1..Len(ch[g]) :
                  i < j /\ ch[g][i].name \in CounterNames => ch[g][j].name \in CounterNames
            /\ pc[g] = "unlock" =>
                  /\ Len(ch[g]) >= 2
                  /\ PlacesOf(g, totalScrapesDesc.fqName) = {Len(ch[g]) - 1}
                  /\ PlacesOf(g, scrapeErrorsDesc.fqName) = {Len(ch[g])})

\* A cycle that has published channel readings and then the two counters,
\* after an earlier cycle failed and while another invocation has begun.
C12_Witness ==
    \E g, h \in Procs :
        /\ g # h
        /\ pc[g] = "unlock" /\ pc[h] = "lock"
        /\ ChannelReadings(g) # {}
        /\ Published(g, scrapeErrorsDesc.fqName) = {1}
        /\ Published(g, totalScrapesDesc.fqName) = {3}

\* The metric families of the interface: name, type and label names.
Family(name, type, labelNames) ==
    [name |-> name, type |-> type, labelNames |-> labelNames]

InterfaceFamilies ==
    {Family("netgear_cm_status_scrapes_total", "counter", <<>>),
     Family("netgear_cm_status_scrape_errors_total", "counter", <<>>),
     Family("netgear_cm_downstream_channel_snr_db", "gauge", dsLabelNames),
     Family("netgear_cm_downstream_channel_power_dbmv", "gauge", dsLabelNames),
     Family("netgear_cm_downstream_channel_correctable_errors_total", "counter",
            dsLabelNames),
     Family("netgear_cm_downstream_channel_uncorrectable_errors_total", "counter",
            dsLabelNames),
     Family("netgear_cm_upstream_channel_power_dbmv", "gauge", usLabelNames),
     Family("netgear_cm_upstream_channel_symbol_rate", "gauge", usLabelNames)}

\* C8: every published sample belongs to one of the eight families of the
\* interface, with its name, type and label names.
C8_FamiliesOfInterface ==
    \A g \in Procs : \A m \in Samples(g) :
        Family(m.name, m.type, m.labelNames) \in InterfaceFamilies

-----------------------------------------------------------------------------
(* Properties of the table scanner, the row extractor and the field parser *)

Scanned == fn = "Sscanf" /\ res # NoRes
TableScanned == fn \in {"dsTable", "usTable"} /\ res # NoRes

\* Samples sent for one row: four downstream, two upstream.
PerRow == IF fn = "dsTable" THEN 4 ELSE 2

\* C4: the table scanner skips exactly the row at index 0 and sends one record
\* (PerRow samples) for every later row, in document order, whatever the cells
\* of a row are: n >= 1 rows give n - 1 records.
C4_OneRecordPerLaterRow ==
    TableScanned /\ arg.kind = "rows" =>
        LET n == Len(arg.table)
        IN  /\ Len(res) = PerRow * (IF n >= 1 THEN n - 1 ELSE 0)
            /\ \A i \in 2..n : \A k \in 1..PerRow :
                  res[PerRow * (i - 2) + k].labels[1] = BasicRows(fn)[arg.ids[i]].channel

C4_Witness ==
    /\ TableScanned /\ fn = "dsTable" /\ arg.kind = "rows"
    /\ arg.ids = <<1, 2, 4, 3, 2>>
    /\ Len(res) = 16

\* The record of the one channel row of a "subst", "prefix" or "extra" input.
DsRecord ==
    [labels |-> res[1].labels, snr |-> res[1].val, power |-> res[2].val,
     corr |-> res[3].val, uncorr |-> res[4].val]
UsRecord ==
    [labels |-> res[1].labels, power |-> res[1].val, symbolRate |-> res[2].val]

Txt602 == <<"6", "0", "2", ".", "0", "0", " ", "M", "H", "z">>
Txt3901 == <<"3", "9", ".", "0", "1", " ", "M", "H", "z">>
NoLabels == <<<<>>, <<>>, <<>>, <<>>, <<>>>>

\* What the example rows yield, and what a row without cells yields.
DsExpected ==
    [labels |-> <<Txt1, TxtLocked, TxtQAM256, Txt5, Txt602>>,
     snr |-> [m |-> 385, e |-> 1], power |-> [m |-> 6, e |-> 1],
     corr |-> [m |-> 15, e |-> 0], uncorr |-> Zero]
DsDefault ==
    [labels |-> NoLabels, snr |-> Zero, power |-> Zero, corr |-> Zero, uncorr |-> Zero]
UsExpected ==
    [labels |-> <<Txt1, TxtLocked, TxtATDMA, Txt1, Txt3901>>,
     power |-> [m |-> 41, e |-> 0], symbolRate |-> [m |-> 5120000, e |-> 0]]
UsDefault == [labels |-> NoLabels, power |-> Zero, symbolRate |-> Zero]

\* The field of a record that column j fills, and what a cell case gives there.
DsField(rec, j) ==
    CASE j <= 4 -> rec.labels[j + 1]
      [] j = 5 -> rec.power
      [] j = 6 -> rec.snr
      [] j = 7 -> rec.corr
      [] j = 8 -> rec.uncorr
DsCase(j, c) == IF j <= 3 THEN c.trim ELSE IF j = 4 THEN c.mhz ELSE c.num
UsField(rec, j) ==
    CASE j <= 3 -> rec.labels[j + 1]
      [] j = 4 -> rec.symbolRate
      [] j = 5 -> rec.labels[5]
      [] j = 6 -> rec.power
UsCase(j, c) ==
    IF j <= 3 THEN c.trim ELSE IF j = 4 THEN c.sym ELSE IF j = 5 THEN c.mhz ELSE c.num

\* The value column j has in the input row: the example's, a replaced cell's,
\* or none when the row is cut before it.
DsWanted(j) ==
    CASE arg.kind = "subst" /\ arg.j = j -> DsCase(j, CellCases[arg.v])
      [] arg.kind = "prefix" /\ j >= arg.k -> DsField(DsDefault, j)
      [] OTHER -> DsField(DsExpected, j)
UsWanted(j) ==
    CASE arg.kind = "subst" /\ arg.j = j -> UsCase(j, CellCases[arg.v])
      [] arg.kind = "prefix" /\ j >= arg.k -> UsField(UsDefault, j)
      [] OTHER -> UsField(UsExpected, j)

\* C5: each field of a record comes from the cell at its fixed column and from
\* no other cell: replacing one cell of the example row changes that column's
\* field alone, a missing cell leaves its field at its default, a further
\* cell changes nothing; all samples of the row carry the same labels.
C5_FieldsByColumn ==
    TableScanned /\ arg.kind # "rows" =>
        /\ Len(res) = PerRow
        /\ \A k \in 1..PerRow : res[k].labels = res[1].labels
        /\ fn = "dsTable" => \A j \in 0..8 : DsField(DsRecord, j) = DsWanted(j)
        /\ fn = "usTable" => \A j \in 0..6 : UsField(UsRecord, j) = UsWanted(j)

C5_Witness ==
    /\ TableScanned /\ fn = "usTable" /\ arg.kind = "prefix" /\ arg.k = 7
    /\ UsRecord = UsExpected

NonBlank(text) == \E i \in 1..Len(text) : text[i] # " "
FreqColumn == IF fn = "dsTable" THEN 4 ELSE 5
\* The row a sample was sent for.
RowOfSample(n) == arg.table[2 + ((n - 1) \div PerRow)]

\* C7, as claimed: every label of every published reading is a non-empty string.
C7_Original ==
    TableScanned => \A n \in 1..Len(res) : \A k \in 1..5 : res[n].labels[k] # <<>>

\* C7, amended: a text label is non-empty exactly when the row has the cell of
\* its column and that cell is not blank, the frequency label exactly when the
\* row has the frequency cell; a row lacking cells is published with empty
\* labels.
C7_LabelsFollowCells ==
    TableScanned =>
        \A n \in 1..Len(res) :
            /\ \A k \in 0..3 :
                  res[n].labels[k + 1] # <<>>
                      <=> (Len(RowOfSample(n)) > k /\ NonBlank(RowOfSample(n)[k + 1]))
            /\ res[n].labels[5] # <<>> <=> Len(RowOfSample(n)) > FreqColumn

C7_Witness ==
    /\ TableScanned /\ fn = "dsTable" /\ arg.kind = "prefix" /\ arg.k = 0
    /\ Len(res) = 4
    /\ res[1].labels = NoLabels

ScanValid == NumCases[arg.num].val # NoNum
\* The cell is "<float><suffix>" exactly (outer spaces are trimmed away).
ScanExact == ScanValid /\ arg.sep \o arg.unit = arg.suffix

-----------------------------------------------------------------------------
(* Properties of the start *)

NoPasswordSupplied ==
    \A src \in {"flag", "env", "file"} : osArgs.password[src] \in {Unset, ""}

\* C9: without a password from any source the process never serves metrics
\* and never fetches from the modem.
C9_PasswordRequired ==
    NoPasswordSupplied =>
        /\ mainPc # "serving"
        /\ \A g \in Procs : ~InCycle(g)

====
